---------------------------- MODULE Spec2Model ----------------------------
(***************************************************************************)
(* Witness generation (populate / generate_trace) and constraint           *)
(* evaluation (eval) of three precompile components of the zkVM core:      *)
(*   - GOperation              blake3/compress/g.rs                        *)
(*   - ShaExtendChip           sha256/extend/trace.rs                      *)
(*   - WeierstrassAddAssignChip weierstrass/weierstrass_add.rs             *)
(*                                                                         *)
(* A u32 is the pair <<hi, lo>> of its 16-bit halves (value hi*2^16+lo),   *)
(* so that no intermediate value needs more than 31 bits.  A Word is the   *)
(* sequence of its four little-endian bytes, as in the column layout.      *)
(* Rust index k is TLA+ index k+1.                                         *)
(***************************************************************************)
EXTENDS Integers, Sequences, FiniteSets, TLC

VARIABLES
    chip,       \* which operation this run performs: "g", "sha" or "ec"
    pc,         \* position of the run
    g_input,    \* GOperation::populate's `input: [u32; 6]`
    g_is_real,  \* is_real of the row that holds the GOperation columns
    g_cols,     \* the GOperation<F> columns of that row
    g_ret,      \* value returned by GOperation::populate (<<>> before)
    g_fed,      \* operands populate passed to the 12 sub-gadgets, in order
    g_eval,     \* what GOperation::eval did on the row (<<>> before)
    input_record, \* the event lists of the `input` record
    calls,      \* how many generate_trace calls were begun on the records
    i,          \* index of the event loop of generate_trace
    rows,       \* `rows` of generate_trace, the returned matrix once pc = "done"
    output,     \* auxiliary lookup events of the `output` record
    ec_eval     \* what WeierstrassAddAssignChip::eval did on one row (<<>> before)

vars == <<chip, pc, g_input, g_is_real, g_cols, g_ret, g_fed, g_eval,
          input_record, calls, i, rows, output, ec_eval>>

\* the list a call iterates over: input.sha_extend_events for ShaExtendChip,
\* input.weierstrass_add_events for WeierstrassAddAssignChip
events ==
    IF chip = "sha" THEN input_record.sha_extend_events
    ELSE input_record.weierstrass_add_events

-----------------------------------------------------------------------------
(* Bounds of the model.                                                    *)

\* how many of the sample words an input word of the G gadget is drawn from
NumSamples == 4

\* the longest event list handed to generate_trace
MaxEvents == 2

\* the longest sequence of generate_trace calls on one pair of records
MaxCalls == 2

\* how many distinct message-schedule events an event list is drawn from
NumShaTemplates == 3

\* how many distinct curve-add events an event list is drawn from
NumEcTemplates == 3

\* the longest curve-add event list (beyond MaxEvents the lists cycle through
\* the events from some first one)
MaxEcEvents == 5

-----------------------------------------------------------------------------
(* 32-bit words.                                                           *)

WORD_SIZE == 4

Hi(u) == u[1]
Lo(u) == u[2]

\* the bitwise xor of two n-bit numbers
RECURSIVE XorN(_, _, _)
XorN(a, b, n) ==
    IF n = 0 THEN 0
    ELSE (((a % 2) + (b % 2)) % 2) + 2 * XorN(a \div 2, b \div 2, n - 1)

\* u32::wrapping_add
wrapping_add(a, b) ==
    LET s == Lo(a) + Lo(b)
    IN  <<(Hi(a) + Hi(b) + (s \div 65536)) % 65536, s % 65536>>

\* u32 `^`
xor_u32(a, b) == <<XorN(Hi(a), Hi(b), 16), XorN(Lo(a), Lo(b), 16)>>

\* u32::rotate_right
rotate_right(u, n) ==
    LET k == n % 32
        s == IF k >= 16 THEN <<Lo(u), Hi(u)>> ELSE u
        m == k % 16
    IN  IF m = 0 THEN s
        ELSE <<(Hi(s) \div 2^m) + (Lo(s) % 2^m) * 2^(16 - m),
               (Lo(s) \div 2^m) + (Hi(s) % 2^m) * 2^(16 - m)>>

\* u32 `>>`
shr_u32(u, n) ==
    IF n >= 16 THEN <<0, Hi(u) \div 2^(n - 16)>>
    ELSE <<Hi(u) \div 2^n, (Lo(u) \div 2^n) + (Hi(u) % 2^n) * 2^(16 - n)>>

\* u32::to_le_bytes, Word::from(u32)
to_le_bytes(u) == <<Lo(u) % 256, Lo(u) \div 256, Hi(u) % 256, Hi(u) \div 256>>

\* Word::to_u32, u32::from_le_bytes
to_u32(w) == <<w[3] + 256 * w[4], w[1] + 256 * w[2]>>

ZeroWord == <<0, 0, 0, 0>>
ZeroU32 == <<0, 0>>

-----------------------------------------------------------------------------
(* Arithmetic gadgets (crate::operations).  Each populate returns its      *)
(* columns together with the u32 it returns (`ret`); each eval is TRUE     *)
(* when the row satisfies the gadget's identities.                         *)

AddCols0 == [value |-> ZeroWord, carry |-> <<0, 0, 0>>]
XorCols0 == [value |-> ZeroWord]
RotCols0 == [value |-> ZeroWord, shift |-> ZeroWord, carry |-> ZeroWord]

\* AddOperation::populate: 32-bit wraparound addition with per-byte carries
AddOperation_populate(a, b) ==
    LET x == to_le_bytes(a)
        y == to_le_bytes(b)
        c1 == (x[1] + y[1]) \div 256
        c2 == (x[2] + y[2] + c1) \div 256
        c3 == (x[3] + y[3] + c2) \div 256
        expected == wrapping_add(a, b)
    IN  [cols |-> [value |-> to_le_bytes(expected), carry |-> <<c1, c2, c3>>],
         ret |-> expected]

\* AddOperation::eval: limb-wise addition with carry propagation, gated by is_real
AddOperation_eval(a, b, cols, is_real) ==
    LET cin(k) == IF k = 1 THEN 0 ELSE cols.carry[k - 1]
        over(k) == a[k] + b[k] + cin(k) - cols.value[k]
    IN  is_real = 0 \/
        /\ \A k \in 1..WORD_SIZE : over(k) \in {0, 256}
        /\ \A k \in 1..3 : cols.carry[k] \in {0, 1} /\ (cols.carry[k] = 1 <=> over(k) = 256)

\* XorOperation::populate: byte-wise xor
XorOperation_populate(x, y) ==
    LET a == to_le_bytes(x)
        b == to_le_bytes(y)
        v == [k \in 1..WORD_SIZE |-> XorN(a[k], b[k], 8)]
    IN  [cols |-> [value |-> v], ret |-> to_u32(v)]

\* XorOperation::eval: one byte lookup per lane, of multiplicity is_real
XorOperation_eval(a, b, cols, is_real) ==
    is_real = 0 \/ \A k \in 1..WORD_SIZE : cols.value[k] = XorN(a[k], b[k], 8)

\* FixedRotateRightOperation::populate: a byte-lane rotation by rotation / 8
\* followed by a bit shift by rotation % 8 whose carries wrap around
FixedRotateRightOperation_populate(input, rotation) ==
    LET bytes == to_le_bytes(input)
        nb_bytes_to_shift == rotation \div 8
        nb_bits_to_shift == rotation % 8
        carry_multiplier == 2^(8 - nb_bits_to_shift)
        rot == [k \in 1..WORD_SIZE |-> bytes[(((k - 1) + nb_bytes_to_shift) % WORD_SIZE) + 1]]
        shift == [k \in 1..WORD_SIZE |-> rot[k] \div 2^nb_bits_to_shift]
        carry == [k \in 1..WORD_SIZE |-> rot[k] % 2^nb_bits_to_shift]
        v == [k \in 1..WORD_SIZE |->
                shift[k] + carry[(k % WORD_SIZE) + 1] * carry_multiplier]
    IN  [cols |-> [value |-> v, shift |-> shift, carry |-> carry], ret |-> to_u32(v)]

\* FixedRotateRightOperation::eval
FixedRotateRightOperation_eval(input, rotation, cols, is_real) ==
    LET nb_bytes_to_shift == rotation \div 8
        nb_bits_to_shift == rotation % 8
        carry_multiplier == 2^(8 - nb_bits_to_shift)
        rot == [k \in 1..WORD_SIZE |-> input[(((k - 1) + nb_bytes_to_shift) % WORD_SIZE) + 1]]
    IN  is_real = 0 \/
        \A k \in 1..WORD_SIZE :
            /\ cols.shift[k] = rot[k] \div 2^nb_bits_to_shift
            /\ cols.carry[k] = rot[k] % 2^nb_bits_to_shift
            /\ cols.value[k] = cols.shift[k] + cols.carry[(k % WORD_SIZE) + 1] * carry_multiplier

-----------------------------------------------------------------------------
(* The G gadget: GOperation.                                               *)

\* super::g_func, the reference mixing round (the `g` of the doc comment)
g_func(input) ==
    LET a0 == input[1]
        b0 == input[2]
        c0 == input[3]
        d0 == input[4]
        x == input[5]
        y == input[6]
        a1 == wrapping_add(wrapping_add(a0, b0), x)
        d1 == rotate_right(xor_u32(d0, a1), 16)
        c1 == wrapping_add(c0, d1)
        b1 == rotate_right(xor_u32(b0, c1), 12)
        a2 == wrapping_add(wrapping_add(a1, b1), y)
        d2 == rotate_right(xor_u32(d1, a2), 8)
        c2 == wrapping_add(c1, d2)
        b2 == rotate_right(xor_u32(b1, c2), 7)
    IN  <<a2, b2, c2, d2>>

\* GOperation::default()
GCols0 ==
    [a_plus_b |-> AddCols0, a_plus_b_plus_x |-> AddCols0, d_xor_a |-> XorCols0,
     c_plus_d |-> AddCols0, b_xor_c |-> XorCols0, b_xor_c_rotate_right_12 |-> RotCols0,
     a_plus_b_2 |-> AddCols0, a_plus_b_2_add_y |-> AddCols0, d_xor_a_2 |-> XorCols0,
     c_plus_d_2 |-> AddCols0, b_xor_c_2 |-> XorCols0, b_xor_c_2_rotate_right_7 |-> RotCols0,
     result |-> <<ZeroWord, ZeroWord, ZeroWord, ZeroWord>>]

\* the rotation by 16 between the first xor and the first c + d of populate
GRotateD1(d) == rotate_right(d, 16)

\* GRotateD2 with the rotation amount of the first half
GRotateD2_Mut(d) == rotate_right(d, 16)

\* the rotation by 8 between the second xor and the second c + d of populate
GRotateD2(d) == rotate_right(d, 8)

\* GOperation::populate up to `let result = [a, b, c, d]`: the sub-gadget
\* columns, the operands handed to each sub-gadget and the chained result
GChain(input) ==
    LET a0 == input[1]
        b0 == input[2]
        c0 == input[3]
        d0 == input[4]
        x == input[5]
        y == input[6]
        \* First 4 steps.
        g1 == AddOperation_populate(a0, b0)
        g2 == AddOperation_populate(g1.ret, x)
        a1 == g2.ret
        g3 == XorOperation_populate(d0, a1)
        d1 == GRotateD1(g3.ret)
        g4 == AddOperation_populate(c0, d1)
        c1 == g4.ret
        g5 == XorOperation_populate(b0, c1)
        g6 == FixedRotateRightOperation_populate(g5.ret, 12)
        b1 == g6.ret
        \* Second 4 steps.
        g7 == AddOperation_populate(a1, b1)
        g8 == AddOperation_populate(g7.ret, y)
        a2 == g8.ret
        g9 == XorOperation_populate(d1, a2)
        d2 == GRotateD2(g9.ret)
        g10 == AddOperation_populate(c1, d2)
        c2 == g10.ret
        g11 == XorOperation_populate(b1, c2)
        g12 == FixedRotateRightOperation_populate(g11.ret, 7)
        b2 == g12.ret
    IN  [cols |->
            [a_plus_b |-> g1.cols, a_plus_b_plus_x |-> g2.cols, d_xor_a |-> g3.cols,
             c_plus_d |-> g4.cols, b_xor_c |-> g5.cols,
             b_xor_c_rotate_right_12 |-> g6.cols,
             a_plus_b_2 |-> g7.cols, a_plus_b_2_add_y |-> g8.cols, d_xor_a_2 |-> g9.cols,
             c_plus_d_2 |-> g10.cols, b_xor_c_2 |-> g11.cols,
             b_xor_c_2_rotate_right_7 |-> g12.cols,
             result |-> GCols0.result],
         fed |-> << <<a0, b0>>, <<g1.ret, x>>, <<d0, a1>>, <<c0, d1>>, <<b0, c1>>,
                    <<g5.ret, 12>>,
                    <<a1, b1>>, <<g7.ret, y>>, <<d1, a2>>, <<c1, d2>>, <<b1, c2>>,
                    <<g11.ret, 7>> >>,
         result |-> <<a2, b2, c2, d2>>]

\* the byte-lane reindexing eval uses for the rotation by 16
GEvalRotate16(d) == <<d[3], d[4], d[1], d[2]>>

\* GEvalRotate8 with the lanes moved the other way
GEvalRotate8_Mut(d) == <<d[4], d[1], d[2], d[3]>>

\* the byte-lane reindexing eval uses for the rotation by 8
GEvalRotate8(d) == <<d[2], d[3], d[4], d[1]>>

\* GOperation::eval on one row: the operands it hands to each sub-gadget, the
\* chained words, and the names of the assertions the row violates
GEvalRow(input, cols, is_real) ==
    LET a0 == input[1]
        b0 == input[2]
        c0 == input[3]
        d0 == input[4]
        x == input[5]
        y == input[6]
        a1 == cols.a_plus_b_plus_x.value
        d1 == GEvalRotate16(cols.d_xor_a.value)
        c1 == cols.c_plus_d.value
        b1 == cols.b_xor_c_rotate_right_12.value
        a2 == cols.a_plus_b_2_add_y.value
        d2 == GEvalRotate8(cols.d_xor_a_2.value)
        c2 == cols.c_plus_d_2.value
        b2 == cols.b_xor_c_2_rotate_right_7.value
        results == <<a2, b2, c2, d2>>
        ok == <<
            AddOperation_eval(a0, b0, cols.a_plus_b, is_real),
            AddOperation_eval(cols.a_plus_b.value, x, cols.a_plus_b_plus_x, is_real),
            XorOperation_eval(d0, a1, cols.d_xor_a, is_real),
            AddOperation_eval(c0, d1, cols.c_plus_d, is_real),
            XorOperation_eval(b0, c1, cols.b_xor_c, is_real),
            FixedRotateRightOperation_eval(cols.b_xor_c.value, 12,
                                           cols.b_xor_c_rotate_right_12, is_real),
            AddOperation_eval(a1, b1, cols.a_plus_b_2, is_real),
            AddOperation_eval(cols.a_plus_b_2.value, y, cols.a_plus_b_2_add_y, is_real),
            XorOperation_eval(d1, a2, cols.d_xor_a_2, is_real),
            AddOperation_eval(c1, d2, cols.c_plus_d_2, is_real),
            XorOperation_eval(b1, c2, cols.b_xor_c_2, is_real),
            FixedRotateRightOperation_eval(cols.b_xor_c_2.value, 7,
                                           cols.b_xor_c_2_rotate_right_7, is_real) >>
    IN  [fed |-> << <<a0, b0>>, <<cols.a_plus_b.value, x>>, <<d0, a1>>, <<c0, d1>>,
                    <<b0, c1>>, <<cols.b_xor_c.value, 12>>,
                    <<a1, b1>>, <<cols.a_plus_b_2.value, y>>, <<d1, a2>>, <<c1, d2>>,
                    <<b1, c2>>, <<cols.b_xor_c_2.value, 7>> >>,
         results |-> results,
         failed |->
            {<<"gadget", k>> : k \in {n \in 1..12 : ~ok[n]}}
            \cup {<<"result", p[1], p[2]>> :
                     p \in {q \in (1..4) \X (1..WORD_SIZE) :
                               cols.result[q[1]][q[2]] # results[q[1]][q[2]]}}
            \cup (IF is_real \in {0, 1} THEN {} ELSE {<<"bool", "is_real">>})
            \cup (IF is_real * is_real * is_real - is_real * is_real * is_real = 0
                  THEN {} ELSE {<<"degree3">>})]

\* the words the inputs of the G gadget are drawn from
SampleWords ==
    << <<0, 0>>, <<65535, 65535>>, <<32768, 1>>, <<4660, 22136>>, <<57005, 48879>>,
       <<1, 0>>, <<0, 255>>, <<43981, 61185>> >>

GSamples == {SampleWords[k] : k \in 1..(IF NumSamples < 8 THEN NumSamples ELSE 8)}

\* the auxiliary lookup events one call adds to a record, as one batch
AuxBatch(kind, who, n) == [kind |-> kind, by |-> who, event |-> n]

\* GOperation::populate
GPopulate ==
    /\ chip = "g"
    /\ pc = "start"
    /\ g_is_real = 1
    /\ LET ch == GChain(g_input)
       IN  /\ g_fed' = ch.fed
           /\ output' = Append(output, AuxBatch("byte_lookup", "g", 0))
           /\ IF ch.result = g_func(g_input)      \* assert_eq!(result, g_func(input))
              THEN /\ g_cols' = [ch.cols EXCEPT
                                   !.result = [k \in 1..4 |-> to_le_bytes(ch.result[k])]]
                   /\ g_ret' = ch.result
                   /\ pc' = "populated"
              ELSE /\ g_cols' = ch.cols
                   /\ g_ret' = <<>>
                   /\ pc' = "aborted"
    /\ UNCHANGED <<chip, g_input, g_is_real, g_eval, input_record, calls, i, rows, ec_eval>>

\* GOperation::eval on the row: a populated row, or a padding row (all columns zero)
GEval ==
    /\ chip = "g"
    /\ \/ pc = "populated"
       \/ pc = "start" /\ g_is_real = 0
    /\ g_eval' = GEvalRow([k \in 1..6 |-> to_le_bytes(g_input[k])], g_cols, g_is_real)
    /\ pc' = "evaluated"
    /\ UNCHANGED <<chip, g_input, g_is_real, g_cols, g_ret, g_fed, input_record, calls, i, rows,
                   output, ec_eval>>

-----------------------------------------------------------------------------
(* Trace shaping.                                                          *)

\* usize::next_power_of_two
RECURSIVE NextPow2From(_, _)
NextPow2From(n, p) == IF p >= n THEN p ELSE NextPow2From(n, 2 * p)

next_power_of_two(n) == NextPow2From(n, 1)

\* PaddedNbRows without the minimum of 4 rows
PaddedNbRows_Mut(nb_rows) == next_power_of_two(nb_rows)

\* the padded row count of generate_trace
PaddedNbRows(nb_rows) ==
    LET padded_nb_rows == next_power_of_two(nb_rows)
    IN  IF padded_nb_rows = 2 \/ padded_nb_rows = 1 THEN 4 ELSE padded_nb_rows

-----------------------------------------------------------------------------
(* The message-schedule extension chip: ShaExtendChip.                     *)

ShaRounds == 48

\* FixedShiftRightOperation::populate, its value column
FixedShiftRightOperation_populate(input, rotation) ==
    LET bytes == to_le_bytes(input)
        nb_bytes_to_shift == rotation \div 8
        nb_bits_to_shift == rotation % 8
        carry_multiplier == 2^(8 - nb_bits_to_shift)
        sh == [k \in 1..WORD_SIZE |->
                 IF k + nb_bytes_to_shift <= WORD_SIZE
                 THEN bytes[k + nb_bytes_to_shift] ELSE 0]
        shift == [k \in 1..WORD_SIZE |-> sh[k] \div 2^nb_bits_to_shift]
        carry == [k \in 1..WORD_SIZE |-> sh[k] % 2^nb_bits_to_shift]
        v == [k \in 1..WORD_SIZE |->
                shift[k] + (IF k < WORD_SIZE THEN carry[k + 1] ELSE 0) * carry_multiplier]
    IN  [cols |-> [value |-> v], ret |-> to_u32(v)]

\* Add4Operation::populate, its value column: the wraparound sum of four words
Add4Operation_populate(a, b, c, d) ==
    LET x == <<to_le_bytes(a), to_le_bytes(b), to_le_bytes(c), to_le_bytes(d)>>
        sum(k, cin) == x[1][k] + x[2][k] + x[3][k] + x[4][k] + cin
        s1 == sum(1, 0)
        s2 == sum(2, s1 \div 256)
        s3 == sum(3, s2 \div 256)
        s4 == sum(4, s3 \div 256)
        v == <<s1 % 256, s2 % 256, s3 % 256, s4 % 256>>
    IN  [cols |-> [value |-> v], ret |-> to_u32(v)]

\* ShaExtendCols::populate_flags: the flags that identify the round of row i
populate_flags(n) ==
    [i |-> 16 + (n % ShaRounds), cycle_16 |-> n % 16, cycle_48 |-> (n \div 16) % 3]

\* the reference extension step of the interpreter, on the schedule so far
ShaExtendStep(w) ==
    LET n == Len(w) + 1
        s0 == xor_u32(xor_u32(rotate_right(w[n - 15], 7), rotate_right(w[n - 15], 18)),
                      shr_u32(w[n - 15], 3))
        s1 == xor_u32(xor_u32(rotate_right(w[n - 2], 17), rotate_right(w[n - 2], 19)),
                      shr_u32(w[n - 2], 10))
    IN  wrapping_add(wrapping_add(wrapping_add(w[n - 16], s0), w[n - 7]), s1)

RECURSIVE ShaSchedule(_)
ShaSchedule(w) ==
    IF Len(w) >= 16 + ShaRounds THEN w ELSE ShaSchedule(Append(w, ShaExtendStep(w)))

\* the 16-word seed of event n; seed 1 is the padded one-block message "abc"
ShaSeed(n) ==
    IF n = 1
    THEN [t \in 1..16 |-> IF t = 1 THEN <<24930, 25472>>
                          ELSE IF t = 16 THEN <<0, 24>> ELSE <<0, 0>>]
    ELSE [t \in 1..16 |-> <<(t * 4099 * n + 17 * n) % 65536,
                            (t * t * 257 + 3 * t + 40503 * n) % 65536>>]

\* the round whose recorded written word differs from the extension step
\* (0: none).  Every third event is one whose record disagrees.
ShaCorruptRound(n) == IF n % 3 = 0 THEN 5 + n ELSE 0

\* a ShaExtendEvent as the interpreter records it: per round the values of the
\* four read records and of the write record
ShaEventOf(n) ==
    LET w == ShaSchedule(ShaSeed(n))
    IN  [shard |-> 1 + (n % 2), clk |-> 100 * n, w_ptr |-> 1024 * n,
         w_i_minus_15_reads |-> [j \in 1..ShaRounds |-> [value |-> w[16 + j - 15]]],
         w_i_minus_2_reads |-> [j \in 1..ShaRounds |-> [value |-> w[16 + j - 2]]],
         w_i_minus_16_reads |-> [j \in 1..ShaRounds |-> [value |-> w[16 + j - 16]]],
         w_i_minus_7_reads |-> [j \in 1..ShaRounds |-> [value |-> w[16 + j - 7]]],
         w_i_writes |-> [j \in 1..ShaRounds |->
                           [value |-> IF j = ShaCorruptRound(n)
                                      THEN xor_u32(w[16 + j], <<0, 1>>)
                                      ELSE w[16 + j]]]]

\* the events an event list is drawn from (an event list holds their numbers)
ShaEvents == [n \in 1..NumShaTemplates |-> ShaEventOf(n)]

\* [F::zero(); NUM_SHA_EXTEND_COLS]
ShaRow0 ==
    [is_real |-> 0, flags |-> [i |-> 0, cycle_16 |-> 0, cycle_48 |-> 0],
     shard |-> 0, clk |-> 0, w_ptr |-> 0,
     w_i_minus_15 |-> ZeroWord, w_i_minus_2 |-> ZeroWord,
     w_i_minus_16 |-> ZeroWord, w_i_minus_7 |-> ZeroWord,
     s0 |-> ZeroWord, s1 |-> ZeroWord, s2 |-> ZeroWord, w_i |-> ZeroWord]

\* ShaS2 that adds s0 twice and leaves s1 out
ShaS2_Mut(w_i_minus_16, s0, w_i_minus_7, s1) ==
    Add4Operation_populate(w_i_minus_16, s0, w_i_minus_7, s0)

\* cols.s2.populate(output, w_i_minus_16, s0, w_i_minus_7, s1)
ShaS2(w_i_minus_16, s0, w_i_minus_7, s1) ==
    Add4Operation_populate(w_i_minus_16, s0, w_i_minus_7, s1)

\* the body of the round loop of generate_trace: the row of round j (from 0)
ShaRow(event, j) ==
    LET w_i_minus_15 == event.w_i_minus_15_reads[j + 1].value
        w_i_minus_15_rr_7 == FixedRotateRightOperation_populate(w_i_minus_15, 7).ret
        w_i_minus_15_rr_18 == FixedRotateRightOperation_populate(w_i_minus_15, 18).ret
        w_i_minus_15_rs_3 == FixedShiftRightOperation_populate(w_i_minus_15, 3).ret
        s0_intermediate == XorOperation_populate(w_i_minus_15_rr_7, w_i_minus_15_rr_18).ret
        s0 == XorOperation_populate(s0_intermediate, w_i_minus_15_rs_3).ret
        w_i_minus_2 == event.w_i_minus_2_reads[j + 1].value
        w_i_minus_2_rr_17 == FixedRotateRightOperation_populate(w_i_minus_2, 17).ret
        w_i_minus_2_rr_19 == FixedRotateRightOperation_populate(w_i_minus_2, 19).ret
        w_i_minus_2_rs_10 == FixedShiftRightOperation_populate(w_i_minus_2, 10).ret
        s1_intermediate == XorOperation_populate(w_i_minus_2_rr_17, w_i_minus_2_rr_19).ret
        s1 == XorOperation_populate(s1_intermediate, w_i_minus_2_rs_10).ret
        w_i_minus_7 == event.w_i_minus_7_reads[j + 1].value
        w_i_minus_16 == event.w_i_minus_16_reads[j + 1].value
        s2 == ShaS2(w_i_minus_16, s0, w_i_minus_7, s1)
    IN  [is_real |-> 1, flags |-> populate_flags(j),
         shard |-> event.shard, clk |-> event.clk, w_ptr |-> event.w_ptr,
         w_i_minus_15 |-> to_le_bytes(w_i_minus_15),
         w_i_minus_2 |-> to_le_bytes(w_i_minus_2),
         w_i_minus_16 |-> to_le_bytes(w_i_minus_16),
         w_i_minus_7 |-> to_le_bytes(w_i_minus_7),
         s0 |-> to_le_bytes(s0), s1 |-> to_le_bytes(s1), s2 |-> s2.cols.value,
         w_i |-> to_le_bytes(event.w_i_writes[j + 1].value)]

\* the rows one iteration of the event loop pushes
ShaEventRows(event) == [k \in 1..ShaRounds |-> ShaRow(event, k - 1)]

\* ShaPush that puts the new rows in front
ShaPush_Mut(rs, new) == new \o rs

\* rows.push(row), for the rows of one event
ShaPush(rs, new) == rs \o new

\* ShaPadRow that marks the padding row real
ShaPadRow_Mut(n) == [ShaRow0 EXCEPT !.flags = populate_flags(n), !.is_real = 1]

\* a padding row of ShaExtendChip::generate_trace, at row index n
ShaPadRow(n) == [ShaRow0 EXCEPT !.flags = populate_flags(n)]

\* output.add_field_events(&new_field_events): one batch per processed event
FieldEventBatches(who, n) == [k \in 1..n |-> AuxBatch("field", who, k)]

\* ShaAddFieldEvents that replaces the events of the output record
ShaAddFieldEvents_Mut(out, n) == FieldEventBatches("sha", n)

\* the output record after output.add_field_events(&new_field_events)
ShaAddFieldEvents(out, n) == out \o FieldEventBatches("sha", n)

\* one iteration of `for i in 0..input.sha_extend_events.len()`
ShaEvent ==
    /\ chip = "sha"
    /\ pc = "loop"
    /\ i < Len(events)
    /\ rows' = ShaPush(rows, ShaEventRows(ShaEvents[events[i + 1]]))
    /\ output' = Append(output, AuxBatch("byte_lookup", "sha", i + 1))
    /\ i' = i + 1
    /\ UNCHANGED <<chip, pc, g_input, g_is_real, g_cols, g_ret, g_fed, g_eval, input_record, calls,
                   ec_eval>>

\* the rest of ShaExtendChip::generate_trace: the field events, the padding
\* and the matrix
ShaFinish ==
    /\ chip = "sha"
    /\ pc = "loop"
    /\ i = Len(events)
    /\ output' = ShaAddFieldEvents(output, Len(events))
    /\ LET nb_rows == Len(rows)
           padded_nb_rows == PaddedNbRows(nb_rows)
       IN  rows' = rows \o [k \in 1..(padded_nb_rows - nb_rows) |->
                              ShaPadRow(nb_rows + k - 1)]
    /\ pc' = "done"
    /\ UNCHANGED <<chip, g_input, g_is_real, g_cols, g_ret, g_fed, g_eval, input_record, calls, i,
                   ec_eval>>

-----------------------------------------------------------------------------
(* The curve-add chip: WeierstrassAddAssignChip<E>.                        *)

NUM_LIMBS == 32
NUM_WORDS_FIELD_ELEMENT == 8
NUM_WORDS_EC_POINT == 16

\* the modulus of E::BaseField.  The chip is generic in the curve; the model takes
\* a prime of more than one limb whose squares stay below 2^31.
Modulus == 32749

\* Register::X11 as u32
X11 == 11

\* Syscall::num_extra_cycles of the chip
num_extra_cycles == 8

RECURSIVE ModPow(_, _)
ModPow(b, e) ==
    IF e = 0 THEN 1
    ELSE LET h == ModPow(b, e \div 2)
             sq == (h * h) % Modulus
         IN  IF e % 2 = 1 THEN (sq * b) % Modulus ELSE sq

\* limb k (from 1) of a big integer
RECURSIVE Limb(_, _)
Limb(v, k) == IF k = 1 THEN v % 256 ELSE Limb(v \div 256, k - 1)

\* P::to_limbs_field
to_limbs(v) == [k \in 1..NUM_LIMBS |-> Limb(v, k)]

\* the big integer of a little-endian limb sequence, from limb k on
RECURSIVE LimbsFrom(_, _)
LimbsFrom(l, k) == IF k > Len(l) THEN 0 ELSE l[k] + 256 * LimbsFrom(l, k + 1)

from_limbs(l) == LimbsFrom(l, 1)

\* the little-endian bytes of a sequence of u32 words
WordsBytes(ws) == [k \in 1..(WORD_SIZE * Len(ws)) |->
                     to_le_bytes(ws[((k - 1) \div WORD_SIZE) + 1])[((k - 1) % WORD_SIZE) + 1]]

\* AffinePoint::from_words_le: x from the first words, y from the rest
from_words_le(ws) ==
    [x |-> from_limbs(WordsBytes(SubSeq(ws, 1, NUM_WORDS_FIELD_ELEMENT))),
     y |-> from_limbs(WordsBytes(SubSeq(ws, NUM_WORDS_FIELD_ELEMENT + 1, NUM_WORDS_EC_POINT)))]

\* the little-endian u32 words of a field element
FieldWords(v) ==
    [k \in 1..NUM_WORDS_FIELD_ELEMENT |->
        <<Limb(v, 4 * k - 1) + 256 * Limb(v, 4 * k), Limb(v, 4 * k - 3) + 256 * Limb(v, 4 * k - 2)>>]

FieldCols0 == [result |-> [k \in 1..NUM_LIMBS |-> 0], carry |-> 0]

\* FieldOpCols::populate: the canonical result and the quotient witness.  Sub and
\* Div are populated as the Add resp. Mul of result and b that gives a again.
FieldOpCols_populate(a, b, op) ==
    LET v == CASE op = "Add" -> (a + b) % Modulus
               [] op = "Mul" -> (a * b) % Modulus
               [] op = "Sub" -> (Modulus + a - b) % Modulus
               [] op = "Div" -> (a * ModPow(b, Modulus - 2)) % Modulus
        q == CASE op = "Add" -> (a + b) \div Modulus
               [] op = "Mul" -> (a * b) \div Modulus
               [] op = "Sub" -> (v + b) \div Modulus
               [] op = "Div" -> (v * b) \div Modulus
    IN  [cols |-> [result |-> to_limbs(v), carry |-> q], ret |-> v]

\* FieldOpCols::eval: lhs OP rhs = quotient * modulus + result, for Sub and Div
\* with result and lhs exchanged; it takes no enabling flag
FieldOpCols_eval(a, b, cols, op) ==
    LET x == from_limbs(a)
        y == from_limbs(b)
        r == from_limbs(cols.result)
    IN  CASE op = "Add" -> x + y = cols.carry * Modulus + r
          [] op = "Mul" -> x * y = cols.carry * Modulus + r
          [] op = "Sub" -> r + y = cols.carry * Modulus + x
          [] op = "Div" -> r * y = cols.carry * Modulus + x

\* one step of a Field-Op chain: which columns, which operation, which operands
Step(name, op, lhs, rhs) == [cols |-> name, op |-> op, lhs |-> lhs, rhs |-> rhs]

\* populate_field_ops that subtracts q.y in the last step (as the comment of eval says)
populate_field_ops_Mut(p_x, p_y, q_x, q_y) ==
    LET slope_numerator == FieldOpCols_populate(q_y, p_y, "Sub")
        slope_denominator == FieldOpCols_populate(q_x, p_x, "Sub")
        slope == FieldOpCols_populate(slope_numerator.ret, slope_denominator.ret, "Div")
        slope_squared == FieldOpCols_populate(slope.ret, slope.ret, "Mul")
        p_x_plus_q_x == FieldOpCols_populate(p_x, q_x, "Add")
        x3_ins == FieldOpCols_populate(slope_squared.ret, p_x_plus_q_x.ret, "Sub")
        x == x3_ins.ret
        p_x_minus_x == FieldOpCols_populate(p_x, x, "Sub")
        slope_times_p_x_minus_x == FieldOpCols_populate(slope.ret, p_x_minus_x.ret, "Mul")
        y3_ins == FieldOpCols_populate(slope_times_p_x_minus_x.ret, q_y, "Sub")
    IN  [cols |->
            [slope_denominator |-> slope_denominator.cols,
             slope_numerator |-> slope_numerator.cols,
             slope |-> slope.cols,
             slope_squared |-> slope_squared.cols,
             p_x_plus_q_x |-> p_x_plus_q_x.cols,
             x3_ins |-> x3_ins.cols,
             p_x_minus_x |-> p_x_minus_x.cols,
             y3_ins |-> y3_ins.cols,
             slope_times_p_x_minus_x |-> slope_times_p_x_minus_x.cols],
         steps |->
            << Step("slope_numerator", "Sub", q_y, p_y),
               Step("slope_denominator", "Sub", q_x, p_x),
               Step("slope", "Div", slope_numerator.ret, slope_denominator.ret),
               Step("slope_squared", "Mul", slope.ret, slope.ret),
               Step("p_x_plus_q_x", "Add", p_x, q_x),
               Step("x3_ins", "Sub", slope_squared.ret, p_x_plus_q_x.ret),
               Step("p_x_minus_x", "Sub", p_x, x),
               Step("slope_times_p_x_minus_x", "Mul", slope.ret, p_x_minus_x.ret),
               Step("y3_ins", "Sub", slope_times_p_x_minus_x.ret, q_y) >>,
         x3 |-> x, y3 |-> y3_ins.ret]

\* WeierstrassAddAssignChip::populate_field_ops: the nine column groups and the
\* steps in call order
populate_field_ops(p_x, p_y, q_x, q_y) ==
    LET slope_numerator == FieldOpCols_populate(q_y, p_y, "Sub")
        slope_denominator == FieldOpCols_populate(q_x, p_x, "Sub")
        slope == FieldOpCols_populate(slope_numerator.ret, slope_denominator.ret, "Div")
        slope_squared == FieldOpCols_populate(slope.ret, slope.ret, "Mul")
        p_x_plus_q_x == FieldOpCols_populate(p_x, q_x, "Add")
        x3_ins == FieldOpCols_populate(slope_squared.ret, p_x_plus_q_x.ret, "Sub")
        x == x3_ins.ret
        p_x_minus_x == FieldOpCols_populate(p_x, x, "Sub")
        slope_times_p_x_minus_x == FieldOpCols_populate(slope.ret, p_x_minus_x.ret, "Mul")
        y3_ins == FieldOpCols_populate(slope_times_p_x_minus_x.ret, p_y, "Sub")
    IN  [cols |->
            [slope_denominator |-> slope_denominator.cols,
             slope_numerator |-> slope_numerator.cols,
             slope |-> slope.cols,
             slope_squared |-> slope_squared.cols,
             p_x_plus_q_x |-> p_x_plus_q_x.cols,
             x3_ins |-> x3_ins.cols,
             p_x_minus_x |-> p_x_minus_x.cols,
             y3_ins |-> y3_ins.cols,
             slope_times_p_x_minus_x |-> slope_times_p_x_minus_x.cols],
         steps |->
            << Step("slope_numerator", "Sub", q_y, p_y),
               Step("slope_denominator", "Sub", q_x, p_x),
               Step("slope", "Div", slope_numerator.ret, slope_denominator.ret),
               Step("slope_squared", "Mul", slope.ret, slope.ret),
               Step("p_x_plus_q_x", "Add", p_x, q_x),
               Step("x3_ins", "Sub", slope_squared.ret, p_x_plus_q_x.ret),
               Step("p_x_minus_x", "Sub", p_x, x),
               Step("slope_times_p_x_minus_x", "Mul", slope.ret, p_x_minus_x.ret),
               Step("y3_ins", "Sub", slope_times_p_x_minus_x.ret, p_y) >>,
         x3 |-> x, y3 |-> y3_ins.ret]

\* the affine sum the interpreter computes when it records the event
EcReferenceAdd(p_x, p_y, q_x, q_y) ==
    LET inv == ModPow((Modulus + q_x - p_x) % Modulus, Modulus - 2)
        slope == (((Modulus + q_y - p_y) % Modulus) * inv) % Modulus
        x3 == (((slope * slope) % Modulus) + 2 * Modulus - p_x - q_x) % Modulus
        y3 == (((slope * ((Modulus + p_x - x3) % Modulus)) % Modulus) + Modulus - p_y) % Modulus
    IN  [x |-> x3, y |-> y3]

\* the coordinates <<p.x, p.y, q.x, q.y>> of event n, with q.x # p.x
EcPoints(n) ==
    LET p_x == (7919 * n + 5) % Modulus
    IN  <<p_x, (1299 * n * n + 3) % Modulus,
          (p_x + 1 + 977 * n) % Modulus, (30011 * n + 258) % Modulus>>

\* an ECAddEvent as the interpreter (create_ec_add_event) records it: P's words
\* before the addition, Q's words, and one memory record per word; P's records
\* hold the sum as the value written and the old word as the previous value
EcEventOf(n) ==
    LET c == EcPoints(n)
        p == FieldWords(c[1]) \o FieldWords(c[2])
        q == FieldWords(c[3]) \o FieldWords(c[4])
        sum == EcReferenceAdd(c[1], c[2], c[3], c[4])
        r == FieldWords(sum.x) \o FieldWords(sum.y)
    IN  [shard |-> 1 + (n % 2), clk |-> 100 * n, p_ptr |-> 2048 * n, q_ptr |-> 2048 * n + 512,
         p |-> p, q |-> q,
         p_memory_records |-> [k \in 1..NUM_WORDS_EC_POINT |->
                                 [value |-> r[k], prev_value |-> p[k]]],
         q_memory_records |-> [k \in 1..NUM_WORDS_EC_POINT |->
                                 [value |-> q[k], prev_value |-> q[k]]],
         q_ptr_record |-> [value |-> <<0, 2048 * n + 512>>,
                           prev_value |-> <<0, 2048 * n + 512>>]]

\* the events an event list is drawn from (an event list holds their numbers)
EcEvents == [n \in 1..NumEcTemplates |-> EcEventOf(n)]

MemCols0 == [value |-> ZeroWord, prev_value |-> ZeroWord]

\* MemoryReadCols::populate, MemoryWriteCols::populate: the value columns
MemoryCols_populate(record) ==
    [value |-> to_le_bytes(record.value), prev_value |-> to_le_bytes(record.prev_value)]

\* [F::zero(); NUM_WEIERSTRASS_ADD_COLS]
EcRow0 ==
    [is_real |-> 0, shard |-> 0, clk |-> 0, p_ptr |-> 0, q_ptr |-> 0,
     q_ptr_access |-> MemCols0,
     p_access |-> [k \in 1..NUM_WORDS_EC_POINT |-> MemCols0],
     q_access |-> [k \in 1..NUM_WORDS_EC_POINT |-> MemCols0],
     ops |-> [slope_denominator |-> FieldCols0, slope_numerator |-> FieldCols0,
              slope |-> FieldCols0, slope_squared |-> FieldCols0,
              p_x_plus_q_x |-> FieldCols0, x3_ins |-> FieldCols0,
              p_x_minus_x |-> FieldCols0, y3_ins |-> FieldCols0,
              slope_times_p_x_minus_x |-> FieldCols0]]

\* the body of the event loop of generate_trace: the row of one event
EcEventRow(event) ==
    LET p == from_words_le(event.p)
        q == from_words_le(event.q)
    IN  [is_real |-> 1, shard |-> event.shard, clk |-> event.clk,
         p_ptr |-> event.p_ptr, q_ptr |-> event.q_ptr,
         ops |-> populate_field_ops(p.x, p.y, q.x, q.y).cols,
         q_access |-> [k \in 1..NUM_WORDS_EC_POINT |->
                         MemoryCols_populate(event.q_memory_records[k])],
         p_access |-> [k \in 1..NUM_WORDS_EC_POINT |->
                         MemoryCols_populate(event.p_memory_records[k])],
         q_ptr_access |-> MemoryCols_populate(event.q_ptr_record)]

\* rows.push(row)
EcPush(rs, row) == Append(rs, row)

\* EcPadPoints with a point tuple that is not all zero
EcPadPoints_Mut == <<0, 0, 0, 1>>

\* the point tuple <<p_x, p_y, q_x, q_y>> the padding closure populates
EcPadPoints == <<0, 0, 0, 0>>

\* the row the padding closure of generate_trace returns
EcPadRow ==
    [EcRow0 EXCEPT !.ops = populate_field_ops(EcPadPoints[1], EcPadPoints[2],
                                              EcPadPoints[3], EcPadPoints[4]).cols]

\* utils::pad_rows: extends the rows with copies of the closure's row
pad_rows(rs, row) ==
    rs \o [k \in 1..(PaddedNbRows(Len(rs)) - Len(rs)) |-> row]

\* limbs_from_prev_access: the previous-value bytes of a slice of accesses
limbs_from_prev_access(cols) ==
    [k \in 1..(WORD_SIZE * Len(cols)) |->
        cols[((k - 1) \div WORD_SIZE) + 1].prev_value[((k - 1) % WORD_SIZE) + 1]]

\* EcResultAsserts that equates y3 with the x words of P
EcResultAsserts_Mut(is_real) ==
    [n \in 1..(2 * NUM_LIMBS) |->
        LET l == (n - 1) \div 2
        IN  [when |-> is_real, cols |-> IF n % 2 = 1 THEN "x3_ins" ELSE "y3_ins",
             limb |-> l, word |-> l \div 4, byte |-> l % 4]]

\* the equalities of eval between the sum and P's written words: for limb n
\* (from 0), which result limb is equated with which byte of which P word
EcResultAsserts(is_real) ==
    [n \in 1..(2 * NUM_LIMBS) |->
        LET l == (n - 1) \div 2
        IN  IF n % 2 = 1
            THEN [when |-> is_real, cols |-> "x3_ins", limb |-> l,
                  word |-> l \div 4, byte |-> l % 4]
            ELSE [when |-> is_real, cols |-> "y3_ins", limb |-> l,
                  word |-> 8 + (l \div 4), byte |-> l % 4]]

\* EcMemoryAccesses with P's words accessed at the base clock
EcMemoryAccesses_Mut(row) ==
    << [kind |-> "access", shard |-> row.shard, clk |-> row.clk, addr |-> X11,
        cols |-> "q_ptr_access", is_real |-> row.is_real],
       [kind |-> "slice", shard |-> row.shard, clk |-> row.clk, addr |-> row.q_ptr,
        cols |-> "q_access", is_real |-> row.is_real],
       [kind |-> "slice", shard |-> row.shard, clk |-> row.clk, addr |-> row.p_ptr,
        cols |-> "p_access", is_real |-> row.is_real] >>

\* the memory-access obligations of eval
EcMemoryAccesses(row) ==
    << [kind |-> "access", shard |-> row.shard, clk |-> row.clk, addr |-> X11,
        cols |-> "q_ptr_access", is_real |-> row.is_real],
       [kind |-> "slice", shard |-> row.shard, clk |-> row.clk, addr |-> row.q_ptr,
        cols |-> "q_access", is_real |-> row.is_real],
       [kind |-> "slice", shard |-> row.shard, clk |-> row.clk + 4, addr |-> row.p_ptr,
        cols |-> "p_access", is_real |-> row.is_real] >>

\* WeierstrassAddAssignChip::eval on one row: the Field-Op steps in call order,
\* the equalities and memory obligations it emits, and what the row violates
EcEvalRow(row) ==
    LET p_x == limbs_from_prev_access(SubSeq(row.p_access, 1, NUM_WORDS_FIELD_ELEMENT))
        p_y == limbs_from_prev_access(
                   SubSeq(row.p_access, NUM_WORDS_FIELD_ELEMENT + 1, NUM_WORDS_EC_POINT))
        q_x == limbs_from_prev_access(SubSeq(row.q_access, 1, NUM_WORDS_FIELD_ELEMENT))
        q_y == limbs_from_prev_access(
                   SubSeq(row.q_access, NUM_WORDS_FIELD_ELEMENT + 1, NUM_WORDS_EC_POINT))
        slope == row.ops.slope.result
        x == row.ops.x3_ins.result
        steps ==
            << Step("slope_numerator", "Sub", q_y, p_y),
               Step("slope_denominator", "Sub", q_x, p_x),
               Step("slope", "Div", row.ops.slope_numerator.result,
                    row.ops.slope_denominator.result),
               Step("slope_squared", "Mul", slope, slope),
               Step("p_x_plus_q_x", "Add", p_x, q_x),
               Step("x3_ins", "Sub", row.ops.slope_squared.result,
                    row.ops.p_x_plus_q_x.result),
               Step("p_x_minus_x", "Sub", p_x, x),
               Step("slope_times_p_x_minus_x", "Mul", slope, row.ops.p_x_minus_x.result),
               Step("y3_ins", "Sub", row.ops.slope_times_p_x_minus_x.result, p_y) >>
        asserts == EcResultAsserts(row.is_real)
    IN  [steps |-> steps,
         asserts |-> asserts,
         accesses |-> EcMemoryAccesses(row),
         failed |->
            {<<"field_op", steps[k].cols>> :
                k \in {n \in 1..Len(steps) :
                         ~FieldOpCols_eval(steps[n].lhs, steps[n].rhs,
                                           row.ops[steps[n].cols], steps[n].op)}}
            \cup {<<"result", asserts[k].cols, asserts[k].limb>> :
                    k \in {n \in 1..Len(asserts) :
                             /\ asserts[n].when # 0
                             /\ row.ops[asserts[n].cols].result[asserts[n].limb + 1]
                                  # row.p_access[asserts[n].word + 1].value[asserts[n].byte + 1]}}]

\* one iteration of `for i in 0..input.weierstrass_add_events.len()`
EcEvent ==
    /\ chip = "ec"
    /\ pc = "loop"
    /\ i < Len(events)
    /\ rows' = EcPush(rows, EcEventRow(EcEvents[events[i + 1]]))
    /\ i' = i + 1
    /\ UNCHANGED <<chip, pc, g_input, g_is_real, g_cols, g_ret, g_fed, g_eval, input_record, calls,
                   output, ec_eval>>

\* the rest of WeierstrassAddAssignChip::generate_trace: the field events, the
\* padding and the matrix
EcFinish ==
    /\ chip = "ec"
    /\ pc = "loop"
    /\ i = Len(events)
    /\ output' = output \o FieldEventBatches("ec", Len(events))
    /\ rows' = pad_rows(rows, EcPadRow)
    /\ pc' = "done"
    /\ UNCHANGED <<chip, g_input, g_is_real, g_cols, g_ret, g_fed, g_eval, input_record, calls, i,
                   ec_eval>>

\* WeierstrassAddAssignChip::eval on one row of the returned matrix
EcEval ==
    /\ chip = "ec"
    /\ pc = "done"
    /\ \E r \in 1..Len(rows) :
          ec_eval' = [row |-> r, out |-> EcEvalRow(rows[r])]
    /\ pc' = "evaluated"
    /\ UNCHANGED <<chip, g_input, g_is_real, g_cols, g_ret, g_fed, g_eval, input_record, calls, i,
                   rows, output>>

\* the prover goes on to the next chip: generate_trace is called again, on the
\* same input record and on the output record the calls so far have left
NextCall ==
    /\ chip \in {"sha", "ec"}
    /\ pc = "done"
    /\ calls < MaxCalls
    /\ chip' \in {"sha", "ec"}
    /\ pc' = "loop"
    /\ i' = 0
    /\ rows' = <<>>
    /\ calls' = calls + 1
    /\ UNCHANGED <<g_input, g_is_real, g_cols, g_ret, g_fed, g_eval, input_record, output,
                   ec_eval>>

-----------------------------------------------------------------------------
(* The runs.                                                               *)

\* the event lists of at most MaxEvents events drawn from events 1..n
EventLists(n) == UNION {[1..len -> 1..n] : len \in 0..MaxEvents}

\* the list of len events that starts with event t and cycles through 1..n
CyclicList(t, len, n) == [k \in 1..len |-> ((t + k - 2) % n) + 1]

ShaEventLists == EventLists(NumShaTemplates)

EcEventLists ==
    EventLists(NumEcTemplates)
    \cup {CyclicList(t, len, NumEcTemplates) : t \in 1..NumEcTemplates, len \in 0..MaxEcEvents}

\* the input records of a run of one call on chip c: the list of c is any of
\* its event lists (the call reads no other list, which is left empty)
InputRecords(c) ==
    IF c = "sha"
    THEN [sha_extend_events : ShaEventLists, weierstrass_add_events : {<<>>}]
    ELSE [sha_extend_events : {<<>>}, weierstrass_add_events : EcEventLists]

\* the input records of a run of several calls: both lists hold up to MaxEvents
\* events, in the cyclic order of the events from some first one
CallRecords ==
    [sha_extend_events :
         {CyclicList(t, len, NumShaTemplates) :
              t \in 1..NumShaTemplates, len \in 0..MaxEvents},
     weierstrass_add_events :
         {CyclicList(t, len, NumEcTemplates) :
              t \in 1..NumEcTemplates, len \in 0..MaxEvents}]

\* the auxiliary events the output record may hold before the call
PriorOutputs == {<<>>, <<AuxBatch("byte_lookup", "cpu", 0)>>}

Init ==
    /\ chip \in {"g", "sha", "ec"}
    /\ g_cols = GCols0
    /\ g_ret = <<>>
    /\ g_fed = <<>>
    /\ g_eval = <<>>
    /\ ec_eval = <<>>
    /\ i = 0
    /\ rows = <<>>
    /\ IF chip = "g"
       THEN /\ pc = "start"
            /\ input_record = [sha_extend_events |-> <<>>, weierstrass_add_events |-> <<>>]
            /\ calls = 0
            /\ output = <<>>
            /\ g_is_real \in {0, 1}
            /\ g_input \in [1..6 -> GSamples]
            /\ g_is_real = 0 => g_input = [k \in 1..6 |-> ZeroU32]
       ELSE /\ pc = "loop"
            /\ output \in PriorOutputs
            /\ g_is_real = 0
            /\ g_input = [k \in 1..6 |-> ZeroU32]
            /\ input_record \in InputRecords(chip)
            /\ calls = 1

Next ==
    \/ GPopulate
    \/ GEval
    \/ ShaEvent
    \/ ShaFinish
    \/ EcEvent
    \/ EcFinish
    \/ EcEval

Spec == Init /\ [][Next]_vars

\* a run of up to MaxCalls calls of generate_trace, each on either chip, on one
\* input record and one output record
InitCalls ==
    /\ chip \in {"sha", "ec"}
    /\ pc = "loop"
    /\ g_input = [k \in 1..6 |-> ZeroU32]
    /\ g_is_real = 0
    /\ g_cols = GCols0
    /\ g_ret = <<>>
    /\ g_fed = <<>>
    /\ g_eval = <<>>
    /\ ec_eval = <<>>
    /\ i = 0
    /\ rows = <<>>
    /\ output \in PriorOutputs
    /\ input_record \in CallRecords
    /\ calls = 1

NextCalls ==
    \/ ShaEvent
    \/ ShaFinish
    \/ EcEvent
    \/ EcFinish
    \/ NextCall

CallsSpec == InitCalls /\ [][NextCalls]_vars

-----------------------------------------------------------------------------
(* Properties.                                                             *)

Returned == pc \in {"done", "evaluated"}

IsPowerOfTwo(n) == \E k \in 0..20 : n = 2^k

\* the number of real rows of the finished trace
NbReal == IF chip = "sha" THEN ShaRounds * Len(events) ELSE Len(events)

\* C1: GOperation::populate returns, for every input, the words of the reference
\* mixing round g_func (it never aborts on its cross-check), stores these words
\* in the result columns, and maps the all-zero input to the all-zero output.
C1_PopulateEqualsReference ==
    chip = "g" =>
        /\ pc # "aborted"
        /\ (g_is_real = 1 /\ pc \in {"populated", "evaluated"}) =>
              /\ g_ret = g_func(g_input)
              /\ \A k \in 1..4 : g_cols.result[k] = to_le_bytes(g_ret[k])
              /\ (\A k \in 1..6 : g_input[k] = ZeroU32) =>
                     \A k \in 1..4 : g_ret[k] = ZeroU32

C1_Witness ==
    /\ chip = "g"
    /\ pc = "populated"
    /\ g_input[1] = <<65535, 65535>>
    /\ g_input[2] = <<32768, 1>>
    /\ g_input[5] = <<4660, 22136>>
    /\ g_ret = g_func(g_input)
    /\ g_ret[2] # ZeroU32

\* C2: on a row filled by populate, eval hands every sub-gadget the operands
\* populate handed it (as little-endian bytes), its byte-lane reindexings are the
\* rotations by 16 and by 8 of the populated xor values, and no assertion of
\* eval fails; the result assertions also hold on the all-zero padding row.
C2_EvalRoundTrip ==
    (chip = "g" /\ pc = "evaluated") =>
        /\ g_eval.failed = {}
        /\ g_is_real = 1 =>
              /\ \A k \in 1..12 :
                    /\ g_eval.fed[k][1] = to_le_bytes(g_fed[k][1])
                    /\ g_eval.fed[k][2] = IF k \in {6, 12} THEN g_fed[k][2]
                                          ELSE to_le_bytes(g_fed[k][2])
              /\ GEvalRotate16(g_cols.d_xor_a.value)
                    = to_le_bytes(rotate_right(to_u32(g_cols.d_xor_a.value), 16))
              /\ GEvalRotate8(g_cols.d_xor_a_2.value)
                    = to_le_bytes(rotate_right(to_u32(g_cols.d_xor_a_2.value), 8))
              /\ \A k \in 1..4 : g_eval.results[k] = to_le_bytes(g_ret[k])
        /\ g_is_real = 0 => /\ g_cols = GCols0
                            /\ \A k \in 1..4 : g_eval.results[k] = g_cols.result[k]

C2_Witness ==
    /\ chip = "g"
    /\ pc = "evaluated"
    /\ g_is_real = 1
    /\ g_eval.failed = {}
    /\ g_cols.d_xor_a_2.value[1] # g_cols.d_xor_a_2.value[2]
    /\ g_cols.d_xor_a.value[1] # g_cols.d_xor_a.value[3]

\* C3: the returned matrix has a power of two of rows, at least 4: the least
\* such number that holds the 48 * n (message schedule) or n (curve add) real rows.
C3_RowCountPowerOfTwo ==
    (chip \in {"sha", "ec"} /\ Returned) =>
        /\ IsPowerOfTwo(Len(rows))
        /\ Len(rows) >= 4
        /\ Len(rows) >= NbReal
        /\ Len(rows) > 4 => Len(rows) < 2 * NbReal

C3_Witness ==
    /\ chip = "ec"
    /\ pc = "done"
    /\ Len(events) = 5
    /\ Len(rows) = 8

\* C4: in the returned matrix is_real is 0 or 1 on every row, exactly the first
\* 48 * n (message schedule) or n (curve add) rows have is_real = 1, and every
\* row after them, that is every padding row, has is_real = 0.
C4_IsRealLayout ==
    (chip \in {"sha", "ec"} /\ Returned) =>
        /\ \A r \in 1..Len(rows) : rows[r].is_real \in {0, 1}
        /\ Cardinality({r \in 1..Len(rows) : rows[r].is_real = 1}) = NbReal
        /\ \A r \in 1..Len(rows) : rows[r].is_real = 1 <=> r <= NbReal

C4_Witness ==
    /\ chip = "sha"
    /\ pc = "done"
    /\ Len(events) = 1
    /\ rows[ShaRounds].is_real = 1
    /\ rows[ShaRounds + 1].is_real = 0
    /\ Len(rows) = 64

\* the coordinates <<p.x, p.y, q.x, q.y>> row r of the curve-add trace was
\* populated from
EcRowPoints(r) ==
    IF r <= Len(events)
    THEN LET p == from_words_le(EcEvents[events[r]].p)
             q == from_words_le(EcEvents[events[r]].q)
         IN  <<p.x, p.y, q.x, q.y>>
    ELSE EcPadPoints

EcOpNames ==
    {"slope_denominator", "slope_numerator", "slope", "slope_squared", "p_x_plus_q_x",
     "x3_ins", "p_x_minus_x", "y3_ins", "slope_times_p_x_minus_x"}

C6_ResultEqualsWrittenWords ==
    (chip = "ec" /\ pc = "evaluated") =>
        LET as == ec_eval.out.asserts
            row == rows[ec_eval.row]
            At(w, b) == {k \in 1..Len(as) : as[k].word = w /\ as[k].byte = b}
        IN  /\ Len(as) = 2 * NUM_LIMBS
            /\ \A n \in 0..(NUM_LIMBS - 1) :
                  /\ \E k \in 1..Len(as) :
                        /\ as[k].cols = "x3_ins" /\ as[k].limb = n
                        /\ as[k].word = n \div 4 /\ as[k].byte = n % 4
                  /\ \E k \in 1..Len(as) :
                        /\ as[k].cols = "y3_ins" /\ as[k].limb = n
                        /\ as[k].word = 8 + (n \div 4) /\ as[k].byte = n % 4
            /\ \A w \in 0..(NUM_WORDS_EC_POINT - 1) : \A b \in 0..(WORD_SIZE - 1) :
                  /\ Cardinality(At(w, b)) = 1
                  /\ \A k \in At(w, b) :
                        as[k].cols = IF w < NUM_WORDS_FIELD_ELEMENT THEN "x3_ins"
                                     ELSE "y3_ins"
            /\ \A k \in 1..Len(as) : as[k].when = row.is_real
            /\ \A k \in 1..Len(as) :
                  (<<"result", as[k].cols, as[k].limb>> \in ec_eval.out.failed)
                      <=> /\ row.is_real = 1
                          /\ row.ops[as[k].cols].result[as[k].limb + 1]
                                # row.p_access[as[k].word + 1].value[as[k].byte + 1]

C6_Witness ==
    /\ chip = "ec"
    /\ pc = "evaluated"
    /\ rows[ec_eval.row].is_real = 1
    /\ rows[ec_eval.row].ops.x3_ins.result[2] # 0
    /\ rows[ec_eval.row].ops.x3_ins.result[2] = rows[ec_eval.row].p_access[1].value[2]
    /\ rows[ec_eval.row].ops.y3_ins.result[1] = rows[ec_eval.row].p_access[9].value[1]
    /\ rows[ec_eval.row].ops.y3_ins.result[1] # rows[ec_eval.row].ops.x3_ins.result[1]

\* the three memory-access obligations of eval, with P's words accessed
\* `offset` cycles after the base clock
EcAccessesAt(offset) ==
    LET row == rows[ec_eval.row]
        acc == ec_eval.out.accesses
    IN  /\ Len(acc) = 3
        /\ acc[1] = [kind |-> "access", shard |-> row.shard, clk |-> row.clk,
                     addr |-> X11, cols |-> "q_ptr_access", is_real |-> row.is_real]
        /\ acc[2] = [kind |-> "slice", shard |-> row.shard, clk |-> row.clk,
                     addr |-> row.q_ptr, cols |-> "q_access", is_real |-> row.is_real]
        /\ acc[3] = [kind |-> "slice", shard |-> row.shard, clk |-> row.clk + offset,
                     addr |-> row.p_ptr, cols |-> "p_access", is_real |-> row.is_real]
        /\ acc[3].clk > acc[1].clk
        /\ acc[3].clk > acc[2].clk

\* C7 as stated: Q's pointer register (X11) and Q's words are accessed at the base
\* clock and P's words at the base clock plus the chip's extra-cycle offset
\* (num_extra_cycles), all gated by is_real, P strictly after Q.
C7_AsStated ==
    (chip = "ec" /\ pc = "evaluated") => EcAccessesAt(num_extra_cycles)

\* C7, amended: Q's pointer register (X11) and Q's words are accessed at the base
\* clock and P's words at the base clock plus 4, a fixed offset inside the
\* num_extra_cycles cycles of the call, all gated by is_real, P strictly after Q.
C7_MemoryAccessClocks ==
    (chip = "ec" /\ pc = "evaluated") =>
        /\ EcAccessesAt(4)
        /\ 4 < num_extra_cycles

C7_Witness ==
    /\ chip = "ec"
    /\ pc = "evaluated"
    /\ rows[ec_eval.row].is_real = 1
    /\ ec_eval.out.accesses[3].clk = rows[ec_eval.row].clk + 4
    /\ ec_eval.out.accesses[3].is_real = 1
    /\ rows[ec_eval.row].clk > 0

C9_MismatchAborts ==
    (chip = "sha" /\ Returned) =>
        \A r \in 1..NbReal : rows[r].s2 = rows[r].w_i

\* C10: the returned matrix is a function of the event list alone, aligned with
\* it: row 48 * i + j is the row of round j of event i (message schedule), row i
\* the row of event i (curve add), whatever the other events and the output
\* record hold; the rows after them are the padding rows.
C10_EventIndexAligned ==
    /\ (chip = "sha" /\ Returned) =>
          /\ \A e \in 1..Len(events) : \A j \in 0..(ShaRounds - 1) :
                rows[ShaRounds * (e - 1) + j + 1] = ShaRow(ShaEvents[events[e]], j)
          /\ \A r \in (NbReal + 1)..Len(rows) : rows[r] = ShaPadRow(r - 1)
    /\ (chip = "ec" /\ Returned) =>
          /\ \A e \in 1..Len(events) : rows[e] = EcEventRow(EcEvents[events[e]])
          /\ \A r \in (NbReal + 1)..Len(rows) : rows[r] = EcPadRow

C10_Witness ==
    /\ chip = "sha"
    /\ pc = "done"
    /\ events = <<2, 1>>
    /\ output # <<>>
    /\ rows[1] # rows[ShaRounds + 1]
    /\ rows[ShaRounds + 2] = ShaRow(ShaEvents[1], 1)

\* the extension formula on four operand words, by plain 32-bit arithmetic
ShaFormula(w_16, w_15, w_7, w_2) ==
    LET s0 == xor_u32(xor_u32(rotate_right(w_15, 7), rotate_right(w_15, 18)),
                      shr_u32(w_15, 3))
        s1 == xor_u32(xor_u32(rotate_right(w_2, 17), rotate_right(w_2, 19)),
                      shr_u32(w_2, 10))
    IN  [s0 |-> s0, s1 |-> s1,
         w_i |-> wrapping_add(wrapping_add(wrapping_add(w_16, s0), w_7), s1)]

\* C11: on every real row (event e, round j) of the message-schedule chip the
\* four operand columns hold the values of the round's four read records, and
\* the populated new word (the s2 sum) is (w[i-16] + s0 + w[i-7] + s1) mod 2^32
\* with s0 = rotr(w[i-15],7) xor rotr(w[i-15],18) xor (w[i-15] >> 3) and
\* s1 = rotr(w[i-2],17) xor rotr(w[i-2],19) xor (w[i-2] >> 10) of these values;
\* the written-word column holds the same word whenever the write record does.
C11_NewWordFormula ==
    chip = "sha" =>
        \A r \in 1..Len(rows) : rows[r].is_real = 1 =>
            LET event == ShaEvents[events[((r - 1) \div ShaRounds) + 1]]
                j == (r - 1) % ShaRounds
                w_16 == event.w_i_minus_16_reads[j + 1].value
                w_15 == event.w_i_minus_15_reads[j + 1].value
                w_7 == event.w_i_minus_7_reads[j + 1].value
                w_2 == event.w_i_minus_2_reads[j + 1].value
                f == ShaFormula(w_16, w_15, w_7, w_2)
            IN  /\ to_u32(rows[r].w_i_minus_16) = w_16
                /\ to_u32(rows[r].w_i_minus_15) = w_15
                /\ to_u32(rows[r].w_i_minus_7) = w_7
                /\ to_u32(rows[r].w_i_minus_2) = w_2
                /\ to_u32(rows[r].s0) = f.s0
                /\ to_u32(rows[r].s1) = f.s1
                /\ to_u32(rows[r].s2) = f.w_i
                /\ event.w_i_writes[j + 1].value = f.w_i => rows[r].w_i = rows[r].s2

\* the seed of the one-block message "abc" extends to the published schedule
\* words W[16..19] = 61626380, 000F0000, 7DA86405, 600003C6, and a row whose
\* write record disagrees still holds the formula's word in s2
C11_Witness ==
    /\ chip = "sha"
    /\ pc = "done"
    /\ events = <<1, 3>>
    /\ to_u32(rows[1].s2) = <<24930, 25472>>
    /\ to_u32(rows[2].s2) = <<15, 0>>
    /\ to_u32(rows[3].s2) = <<32168, 25605>>
    /\ to_u32(rows[4].s2) = <<24576, 966>>
    /\ rows[ShaRounds + 8].is_real = 1
    /\ rows[ShaRounds + 8].w_i # rows[ShaRounds + 8].s2

\* sequence a is an initial part of sequence b
IsPrefix(a, b) == Len(a) <= Len(b) /\ SubSeq(b, 1, Len(a)) = a

\* C12: every step of every call of generate_trace, on either chip and in any
\* sequence of calls, leaves the event lists of the input record unchanged and
\* changes the auxiliary lookup events of the output record only by appending:
\* the events held before the step are a prefix of those held after it.
C12_InputKeptOutputAppended ==
    [][/\ input_record' = input_record
       /\ IsPrefix(output, output')]_vars

\* a message-schedule call and then a curve-add call have returned, on a record
\* that held an event before: it is still first, followed by the events of the
\* first call and then those of the second
C12_Witness ==
    /\ calls = 2
    /\ chip = "ec"
    /\ pc = "done"
    /\ input_record.sha_extend_events = <<1>>
    /\ input_record.weierstrass_add_events = <<2, 3>>
    /\ Len(output) = 5
    /\ output[1] = AuxBatch("byte_lookup", "cpu", 0)
    /\ output[2] = AuxBatch("byte_lookup", "sha", 1)
    /\ output[3] = AuxBatch("field", "sha", 1)
    /\ output[5] = AuxBatch("field", "ec", 2)

=============================================================================
